---- MODULE Spec2Model ----
(***************************************************************************)
(* Discrete-event kernel of the multi-class queueing network simulator     *)
(* (queueing_network.py, queue.py, server.py, agent.py, config_loader.py). *)
(* Times are integer ticks; every random draw (interarrival time, service  *)
(* time, category, routing) is a nondeterministic input of the step that   *)
(* consumes it.                                                            *)
(***************************************************************************)
EXTENDS Integers, Sequences, FiniteSets, TLC

VARIABLES
    config,                              \* NetworkConfig accessors' values
    time,                                \* self.time
    event_queue,                         \* self.event_queue (heap of tuples)
    queues,                              \* self.queues
    active_agents,                       \* self._active_agents
    agents_data,                         \* self.agents_data
    rejected_agents,                     \* self.rejected_agents
    agent_counter,                       \* self.agent_counter
    state_changes,                       \* self.state_changes
    server_busy_periods,                 \* self.server_busy_periods
    arrival_counts,                      \* self.arrival_counts
    accepted_arrival_counts,             \* self.accepted_arrival_counts
    arrival_counts_by_category,          \* self.arrival_counts_by_category
    accepted_arrival_counts_by_category, \* self.accepted_arrival_counts_by_category
    agents_data_by_category,             \* self.agents_data_by_category
    pc,                                  \* position inside simulate()
    event,                               \* simulate(): the event popped last
    next_queue_id,                       \* handle_departure(): last routing result
    replica                              \* a second run of the same configuration

vars == <<config, time, event_queue, queues, active_agents, agents_data,
          rejected_agents, agent_counter, state_changes, server_busy_periods,
          arrival_counts, accepted_arrival_counts, arrival_counts_by_category,
          accepted_arrival_counts_by_category, agents_data_by_category,
          pc, event, next_queue_id, replica>>

-----------------------------------------------------------------------------
(* Bounds of the model *)

NumQueues == 2
MaxTime == 3
MaxDur == 2
MaxServers == 2
MaxCapacity == 1

-----------------------------------------------------------------------------
(* Program constants *)

ARRIVAL == 0
DEPARTURE == 1

\* Python's None (no agent, no server, no next queue, no timestamp yet)
None == 0 - 1

\* float('inf'), the capacity of an unbounded waiting line
Inf == 0 - 2

QueueIds == 0 .. (NumQueues - 1)
Categories == {"A", "B"}
Durations == 1 .. MaxDur

\* order of str values (categories compare only between two ARRIVAL tuples)
CategoryRank(c) == IF c = "A" THEN 0 ELSE 1

-----------------------------------------------------------------------------
(* Configuration (config_loader.py) *)

\* routing_matrix rows in percent; row sums are at most 100
ZeroRow == [j \in QueueIds |-> 0]
AllZeroMatrix == [i \in QueueIds |-> ZeroRow]
\* station i sends everything to i+1, the last station's row is all zeros
SeriesMatrix ==
    [i \in QueueIds |-> [j \in QueueIds |-> IF j = i + 1 THEN 100 ELSE 0]]
\* station i sends half to i+1 (mod N), the other half leaves (row sum < 1)
LossyRingMatrix ==
    [i \in QueueIds |->
        [j \in QueueIds |-> IF j = (i + 1) % NumQueues THEN 50 ELSE 0]]
\* station 0 splits between itself and the last station, the others are sinks
SplitMatrix ==
    [i \in QueueIds |->
        [j \in QueueIds |->
            IF i = 0 /\ j \in {0, NumQueues - 1} THEN 50 ELSE 0]]

\* stations 0 and 1 send everything to each other, the others are sinks
BounceMatrix ==
    [i \in QueueIds |->
        [j \in QueueIds |->
            IF (i = 0 /\ j = 1) \/ (i = 1 /\ j = 0) THEN 100 ELSE 0]]

\* get_capacities: 'inf' (or no capacity key) becomes float('inf')
NoCapacity == 0
GetCapacities(spec) ==
    [q \in QueueIds |-> IF spec[q] = NoCapacity THEN Inf ELSE spec[q]]

\* get_category_arrival_probabilities, in percent
BothCategories == [cat \in Categories |-> 50]
OnlyCategoryA == [cat \in Categories |-> IF cat = "A" THEN 100 ELSE 0]

\* The accessors' values for a network whose stations all have c servers
\* and capacity k; category "A" is routed by m, category "B" by mb.
NetworkConfig(max_time, c, k, m, mb, probs) ==
    [ max_time         |-> max_time,
      num_servers      |-> [q \in QueueIds |-> c],
      capacities       |-> GetCapacities([q \in QueueIds |-> k]),
      category_probs   |-> probs,
      routing_matrices |->
          [cat \in Categories |-> IF cat = "A" THEN m ELSE mb],
      arrival_queue    |-> 0 ]

\* single servers in series, unbounded waiting lines
TandemConfig ==
    NetworkConfig(MaxTime, 1, NoCapacity, SeriesMatrix, SeriesMatrix,
                  BothCategories)
\* single servers with finite waiting lines; class "A" may be fed back into
\* the entry station, class "B" leaves after one service
FiniteRingConfig ==
    NetworkConfig(MaxTime, 1, MaxCapacity, LossyRingMatrix, AllZeroMatrix,
                  BothCategories)
\* several servers per station; class "A" may be routed to its own station
MultiServerConfig ==
    NetworkConfig(MaxTime, MaxServers, NoCapacity, SplitMatrix, SeriesMatrix,
                  BothCategories)
\* one class, no routing, finite waiting lines and a horizon that leaves room
\* for a further arrival after the waiting line has filled up
LongRunConfig ==
    NetworkConfig(MaxTime + MaxDur, 1, MaxCapacity, AllZeroMatrix,
                  AllZeroMatrix, OnlyCategoryA)

\* one class that always bounces between the entry station and the next one,
\* with a horizon that leaves room for an arrival after the first return
FeedbackConfig ==
    NetworkConfig(MaxTime + 1, 1, NoCapacity, BounceMatrix, BounceMatrix,
                  OnlyCategoryA)

Configs ==
    { TandemConfig, FiniteRingConfig, MultiServerConfig, LongRunConfig,
      FeedbackConfig }

\* QueueingNetwork._assign_category: the categories np.random.choice can return
AssignCategory == {cat \in Categories : config.category_probs[cat] > 0}

-----------------------------------------------------------------------------
(* The simulator object *)

Self ==
    [ time |-> time,
      event_queue |-> event_queue,
      queues |-> queues,
      active_agents |-> active_agents,
      agents_data |-> agents_data,
      rejected_agents |-> rejected_agents,
      agent_counter |-> agent_counter,
      state_changes |-> state_changes,
      server_busy_periods |-> server_busy_periods,
      arrival_counts |-> arrival_counts,
      accepted_arrival_counts |-> accepted_arrival_counts,
      arrival_counts_by_category |-> arrival_counts_by_category,
      accepted_arrival_counts_by_category |-> accepted_arrival_counts_by_category,
      agents_data_by_category |-> agents_data_by_category,
      pc |-> pc,
      event |-> event,
      next_queue_id |-> next_queue_id ]

\* Server.__init__
NewServer == [is_busy |-> FALSE, current_agent |-> None]

\* Queue.__init__
NewQueue(n, cap) ==
    [ num_servers |-> n,
      capacity |-> cap,
      servers |-> [i \in 0 .. (n - 1) |-> NewServer],
      waiting_queue |-> << >> ]

\* Agent.__init__
NewAgent(arrival_time, agent_id, category) ==
    [ agent_id |-> agent_id,
      arrival_time |-> arrival_time,
      service_start_time |-> None,
      departure_time |-> None,
      queue_length_on_arrival |-> None,
      server_id |-> None,
      category |-> category ]

GetFreeServerOnlyFirst(queue) ==
    IF queue.servers[0].is_busy THEN None ELSE 0

GetFreeServerFirst(queue) == CHOOSE i \in DOMAIN queue.servers :
                                \A k \in DOMAIN queue.servers : i <= k

\* Queue.get_free_server: the first idle server by index, or None
GetFreeServer(queue) ==
    LET idle == {i \in DOMAIN queue.servers : ~queue.servers[i].is_busy}
    IN  IF idle = {} THEN None
        ELSE CHOOSE i \in idle : \A k \in idle : i <= k

IsFullOffByOne(queue) ==
    IF queue.capacity = Inf THEN FALSE
    ELSE Len(queue.waiting_queue) > queue.capacity

IsFullByServers(queue) == Len(queue.waiting_queue) >= queue.num_servers

\* Queue.is_full
IsFull(queue) ==
    IF queue.capacity = Inf THEN FALSE
    ELSE Len(queue.waiting_queue) >= queue.capacity

GetNextAgentPeek(queue) ==
    [ agent |-> Head(queue.waiting_queue),
      waiting_queue |-> queue.waiting_queue ]

GetNextAgentLast(queue) ==
    [ agent |-> queue.waiting_queue[Len(queue.waiting_queue)],
      waiting_queue |->
          SubSeq(queue.waiting_queue, 1, Len(queue.waiting_queue) - 1) ]

\* Queue.get_next_agent on a non-empty waiting line: the agent returned and
\* the waiting line left behind by pop(0)
GetNextAgent(queue) ==
    [ agent |-> Head(queue.waiting_queue),
      waiting_queue |-> Tail(queue.waiting_queue) ]

\* Queue.get_current_queue_length
GetCurrentQueueLength(queue) == Len(queue.waiting_queue)

\* Queue.get_num_busy_servers
GetNumBusyServers(queue) ==
    Cardinality({i \in DOMAIN queue.servers : queue.servers[i].is_busy})

\* Queue.get_current_system_length
GetCurrentSystemLength(queue) ==
    Len(queue.waiting_queue) + GetNumBusyServers(queue)

\* QueueingNetwork.record_state_change
RecordStateChange(s, q) ==
    [s EXCEPT !.state_changes[q] =
        Append(@, << s.time,
                     GetCurrentQueueLength(s.queues[q]),
                     GetCurrentSystemLength(s.queues[q]),
                     GetNumBusyServers(s.queues[q]) >>)]

ScheduleNextArrivalAlwaysCounts(s, ia, cat) ==
    LET next_arrival_time == s.time + ia
    IN  IF next_arrival_time <= config.max_time
        THEN [s EXCEPT
                !.agent_counter = @ + 1,
                !.event_queue = @ \cup
                    { << next_arrival_time, ARRIVAL, s.agent_counter,
                         config.arrival_queue, cat >> }]
        ELSE [s EXCEPT !.agent_counter = @ + 1]

\* QueueingNetwork.schedule_next_arrival; ia and cat are the two draws
ScheduleNextArrival(s, ia, cat) ==
    LET next_arrival_time == s.time + ia
    IN  IF next_arrival_time <= config.max_time
        THEN [s EXCEPT
                !.agent_counter = @ + 1,
                !.event_queue = @ \cup
                    { << next_arrival_time, ARRIVAL, s.agent_counter,
                         config.arrival_queue, cat >> }]
        ELSE s

AssignServerUnscheduled(s, server_id, aid, q, st) ==
    LET s1 == [s EXCEPT
                !.queues[q].servers[server_id] =
                    [is_busy |-> TRUE, current_agent |-> aid],
                !.active_agents[aid].service_start_time = s.time,
                !.active_agents[aid].server_id = server_id]
        s2 == RecordStateChange(s1, q)
    IN  [s2 EXCEPT !.active_agents[aid].departure_time = s.time + st]

AssignServerStaleStart(s, server_id, aid, q, st) ==
    LET s1 == [s EXCEPT
                !.queues[q].servers[server_id] =
                    [is_busy |-> TRUE, current_agent |-> aid],
                !.active_agents[aid].server_id = server_id]
        s2 == RecordStateChange(s1, q)
    IN  [s2 EXCEPT
            !.active_agents[aid].departure_time = s.time + st,
            !.event_queue = @ \cup {<< s.time + st, DEPARTURE, aid, q >>}]

\* QueueingNetwork.assign_server; st is the drawn service time
AssignServer(s, server_id, aid, q, st) ==
    LET s1 == [s EXCEPT
                !.queues[q].servers[server_id] =
                    [is_busy |-> TRUE, current_agent |-> aid],
                !.active_agents[aid].service_start_time = s.time,
                !.active_agents[aid].server_id = server_id]
        s2 == RecordStateChange(s1, q)
    IN  [s2 EXCEPT
            !.active_agents[aid].departure_time = s.time + st,
            !.event_queue = @ \cup {<< s.time + st, DEPARTURE, aid, q >>}]

RejectAgentCountedAccepted(s, aid, q) ==
    [s EXCEPT
        !.rejected_agents = Append(@,
            [ agent_id |-> aid,
              rejection_time |-> s.time,
              queue_id |-> q,
              category |-> s.active_agents[aid].category ]),
        !.accepted_arrival_counts[q] = @ + 1]

RejectAgentUnlogged(s, aid, q) == s

RejectAgentAndRetry(s, aid, q) ==
    [s EXCEPT
        !.rejected_agents = Append(@,
            [ agent_id |-> aid,
              rejection_time |-> s.time,
              queue_id |-> q,
              category |-> s.active_agents[aid].category ]),
        !.event_queue = @ \cup
            { << s.time + 1, ARRIVAL, aid, q, s.active_agents[aid].category >> }]

\* lines 215-224 of handle_arrival: the rejection record
RejectAgent(s, aid, q) ==
    [s EXCEPT
        !.rejected_agents = Append(@,
            [ agent_id |-> aid,
              rejection_time |-> s.time,
              queue_id |-> q,
              category |-> s.active_agents[aid].category ])]

HandleArrivalJoinUncountedByClass(s, aid, q, st, ia, cat) ==
    LET category == s.active_agents[aid].category
        s1 == [s EXCEPT
                !.arrival_counts[q] = @ + 1,
                !.arrival_counts_by_category[category][q] = @ + 1]
        s2 == RecordStateChange(s1, q)
        s3 == [s2 EXCEPT
                !.active_agents[aid].queue_length_on_arrival =
                    Len(s2.queues[q].waiting_queue)]
        free_server == GetFreeServer(s3.queues[q])
        accept(t) ==
            [t EXCEPT
                !.accepted_arrival_counts[q] = @ + 1,
                !.accepted_arrival_counts_by_category[category][q] = @ + 1]
        tail(t) ==
            IF q = config.arrival_queue
            THEN ScheduleNextArrival(t, ia, cat) ELSE t
    IN  IF free_server # None
        THEN tail(accept(AssignServer(s3, free_server, aid, q, st)))
        ELSE IF ~IsFull(s3.queues[q])
        THEN tail(RecordStateChange(
                [s3 EXCEPT !.queues[q].waiting_queue = Append(@, aid),
                           !.accepted_arrival_counts[q] = @ + 1],
                q))
        ELSE RejectAgent(s3, aid, q)

HandleArrivalNoRecordOnJoin(s, aid, q, st, ia, cat) ==
    LET category == s.active_agents[aid].category
        s1 == [s EXCEPT
                !.arrival_counts[q] = @ + 1,
                !.arrival_counts_by_category[category][q] = @ + 1]
        s2 == RecordStateChange(s1, q)
        s3 == [s2 EXCEPT
                !.active_agents[aid].queue_length_on_arrival =
                    Len(s2.queues[q].waiting_queue)]
        free_server == GetFreeServer(s3.queues[q])
        accept(t) ==
            [t EXCEPT
                !.accepted_arrival_counts[q] = @ + 1,
                !.accepted_arrival_counts_by_category[category][q] = @ + 1]
        tail(t) ==
            IF q = config.arrival_queue
            THEN ScheduleNextArrival(t, ia, cat) ELSE t
    IN  IF free_server # None
        THEN tail(accept(AssignServer(s3, free_server, aid, q, st)))
        ELSE IF ~IsFull(s3.queues[q])
        THEN tail(accept([s3 EXCEPT !.queues[q].waiting_queue = Append(@, aid)]))
        ELSE RejectAgent(s3, aid, q)

\* QueueingNetwork.handle_arrival; st, ia, cat are the draws it may consume
HandleArrival(s, aid, q, st, ia, cat) ==
    LET category == s.active_agents[aid].category
        s1 == [s EXCEPT
                !.arrival_counts[q] = @ + 1,
                !.arrival_counts_by_category[category][q] = @ + 1]
        s2 == RecordStateChange(s1, q)
        s3 == [s2 EXCEPT
                !.active_agents[aid].queue_length_on_arrival =
                    Len(s2.queues[q].waiting_queue)]
        free_server == GetFreeServer(s3.queues[q])
        accept(t) ==
            [t EXCEPT
                !.accepted_arrival_counts[q] = @ + 1,
                !.accepted_arrival_counts_by_category[category][q] = @ + 1]
        \* lines 226-228: reached only when the agent was not rejected
        tail(t) ==
            IF q = config.arrival_queue
            THEN ScheduleNextArrival(t, ia, cat) ELSE t
    IN  IF free_server # None
        THEN tail(accept(AssignServer(s3, free_server, aid, q, st)))
        ELSE IF ~IsFull(s3.queues[q])
        THEN tail(RecordStateChange(
                accept([s3 EXCEPT !.queues[q].waiting_queue = Append(@, aid)]),
                q))
        ELSE RejectAgent(s3, aid, q)

LogDepartureByCategoryOnly(s, aid, q) ==
    LET agent == s.active_agents[aid]
    IN  [s EXCEPT
            !.agents_data_by_category[agent.category] =
                Append(@, << agent.agent_id, agent.arrival_time,
                             agent.service_start_time, agent.departure_time,
                             agent.server_id, q,
                             agent.queue_length_on_arrival >>)]

\* QueueingNetwork.log_departure
LogDeparture(s, aid, q) ==
    LET agent == s.active_agents[aid]
        departure_record ==
            << agent.agent_id, agent.arrival_time, agent.service_start_time,
               agent.departure_time, agent.server_id, q,
               agent.queue_length_on_arrival >>
    IN  [s EXCEPT
            !.agents_data = Append(@, departure_record),
            !.agents_data_by_category[agent.category] =
                Append(@, departure_record)]

\* sum(probabilities) in route_agent
RECURSIVE SumFirst(_, _)
SumFirst(probabilities, n) ==
    IF n = 0 THEN 0 ELSE probabilities[n - 1] + SumFirst(probabilities, n - 1)

RouteAgentNoZeroCheck(category, current_queue_id) ==
    LET probabilities == config.routing_matrices[category][current_queue_id]
        prob_sum == SumFirst(probabilities, NumQueues)
    IN  (IF prob_sum < 100 THEN {None} ELSE {})
        \cup {j \in QueueIds : probabilities[j] >= 0}

RouteAgentUniform(category, current_queue_id) ==
    LET probabilities == config.routing_matrices[category][current_queue_id]
        prob_sum == SumFirst(probabilities, NumQueues)
    IN  IF \A j \in QueueIds : probabilities[j] = 0
        THEN {None}
        ELSE (IF prob_sum < 100 THEN {None} ELSE {}) \cup QueueIds

\* QueueingNetwork.route_agent: the results its two draws can produce
RouteAgent(category, current_queue_id) ==
    LET probabilities == config.routing_matrices[category][current_queue_id]
        prob_sum == SumFirst(probabilities, NumQueues)
    IN  IF \A j \in QueueIds : probabilities[j] = 0
        THEN {None}
        ELSE (IF prob_sum < 100 THEN {None} ELSE {})
             \cup {j \in QueueIds : probabilities[j] > 0}

HandleDepartureKeepsServerId(s, aid, q, st_next, nq, st, ia, cat) ==
    LET s1 == RecordStateChange(s, q)
        s2 == LogDeparture(s1, aid, q)
        server_id == s2.active_agents[aid].server_id
        s3 == [s2 EXCEPT
                !.server_busy_periods = Append(@,
                    [ queue_id |-> q,
                      server_id |-> server_id,
                      start_time |-> s2.active_agents[aid].service_start_time,
                      end_time |-> s2.time,
                      category |-> s2.active_agents[aid].category ])]
        s4 == [s3 EXCEPT !.queues[q].servers[server_id] = NewServer]
        s5 == RecordStateChange(s4, q)
        next == GetNextAgent(s5.queues[q])
        s6 == IF s5.queues[q].waiting_queue # << >>
              THEN AssignServer(
                     [s5 EXCEPT !.queues[q].waiting_queue = next.waiting_queue],
                     server_id, next.agent, q, st_next)
              ELSE s5
        s7 == [s6 EXCEPT !.next_queue_id = nq]
    IN  IF nq # None /\ nq # q
        THEN HandleArrival(
               [s7 EXCEPT !.active_agents[aid].arrival_time = s7.time],
               aid, nq, st, ia, cat)
        ELSE s7

HandleDepartureLeavesLineWaiting(s, aid, q, st_next, nq, st, ia, cat) ==
    LET s1 == RecordStateChange(s, q)
        s2 == LogDeparture(s1, aid, q)
        server_id == s2.active_agents[aid].server_id
        s3 == [s2 EXCEPT
                !.server_busy_periods = Append(@,
                    [ queue_id |-> q,
                      server_id |-> server_id,
                      start_time |-> s2.active_agents[aid].service_start_time,
                      end_time |-> s2.time,
                      category |-> s2.active_agents[aid].category ])]
        s4 == [s3 EXCEPT !.queues[q].servers[server_id] = NewServer]
        s5 == RecordStateChange(s4, q)
        s7 == [s5 EXCEPT !.next_queue_id = nq]
    IN  IF nq # None /\ nq # q
        THEN HandleArrival(
               [s7 EXCEPT !.active_agents[aid].arrival_time = s7.time,
                          !.active_agents[aid].server_id = None],
               aid, nq, st, ia, cat)
        ELSE s7

HandleDepartureKeepsArrivalTime(s, aid, q, st_next, nq, st, ia, cat) ==
    LET s1 == RecordStateChange(s, q)
        s2 == LogDeparture(s1, aid, q)
        server_id == s2.active_agents[aid].server_id
        s3 == [s2 EXCEPT
                !.server_busy_periods = Append(@,
                    [ queue_id |-> q,
                      server_id |-> server_id,
                      start_time |-> s2.active_agents[aid].service_start_time,
                      end_time |-> s2.time,
                      category |-> s2.active_agents[aid].category ])]
        s4 == [s3 EXCEPT !.queues[q].servers[server_id] = NewServer]
        s5 == RecordStateChange(s4, q)
        next == GetNextAgent(s5.queues[q])
        s6 == IF s5.queues[q].waiting_queue # << >>
              THEN AssignServer(
                     [s5 EXCEPT !.queues[q].waiting_queue = next.waiting_queue],
                     server_id, next.agent, q, st_next)
              ELSE s5
        s7 == [s6 EXCEPT !.next_queue_id = nq]
    IN  IF nq # None /\ nq # q
        THEN HandleArrival(
               [s7 EXCEPT !.active_agents[aid].server_id = None],
               aid, nq, st, ia, cat)
        ELSE s7

HandleDepartureFollowsRoute(s, aid, q, st_next, nq, st, ia, cat) ==
    LET s1 == RecordStateChange(s, q)
        s2 == LogDeparture(s1, aid, q)
        server_id == s2.active_agents[aid].server_id
        s3 == [s2 EXCEPT
                !.server_busy_periods = Append(@,
                    [ queue_id |-> q,
                      server_id |-> server_id,
                      start_time |-> s2.active_agents[aid].service_start_time,
                      end_time |-> s2.time,
                      category |-> s2.active_agents[aid].category ])]
        s4 == [s3 EXCEPT !.queues[q].servers[server_id] = NewServer]
        s5 == RecordStateChange(s4, q)
        next == GetNextAgent(s5.queues[q])
        s6 == IF s5.queues[q].waiting_queue # << >>
              THEN AssignServer(
                     [s5 EXCEPT !.queues[q].waiting_queue = next.waiting_queue],
                     server_id, next.agent, q, st_next)
              ELSE s5
        s7 == [s6 EXCEPT !.next_queue_id = nq]
        hop(t, j) ==
            HandleArrival(
               [t EXCEPT !.active_agents[aid].arrival_time = t.time,
                         !.active_agents[aid].server_id = None],
               aid, j, st, ia, cat)
        onward ==
            IF nq = None THEN {}
            ELSE RouteAgent(s.active_agents[aid].category, nq) \ {None, nq}
    IN  IF nq # None /\ nq # q
        THEN IF onward = {} THEN hop(s7, nq)
             ELSE hop(hop(s7, nq), CHOOSE j \in onward : TRUE)
        ELSE s7

\* QueueingNetwork.handle_departure; st_next is the service time drawn for
\* the agent taken from the waiting line, nq the routing result, and
\* st, ia, cat the draws of the nested handle_arrival
HandleDeparture(s, aid, q, st_next, nq, st, ia, cat) ==
    LET s1 == RecordStateChange(s, q)
        s2 == LogDeparture(s1, aid, q)
        server_id == s2.active_agents[aid].server_id
        s3 == [s2 EXCEPT
                !.server_busy_periods = Append(@,
                    [ queue_id |-> q,
                      server_id |-> server_id,
                      start_time |-> s2.active_agents[aid].service_start_time,
                      end_time |-> s2.time,
                      category |-> s2.active_agents[aid].category ])]
        \* Server.release_agent
        s4 == [s3 EXCEPT !.queues[q].servers[server_id] = NewServer]
        s5 == RecordStateChange(s4, q)
        next == GetNextAgent(s5.queues[q])
        s6 == IF s5.queues[q].waiting_queue # << >>
              THEN AssignServer(
                     [s5 EXCEPT !.queues[q].waiting_queue = next.waiting_queue],
                     server_id, next.agent, q, st_next)
              ELSE s5
        s7 == [s6 EXCEPT !.next_queue_id = nq]
    IN  IF nq # None /\ nq # q
        THEN HandleArrival(
               [s7 EXCEPT !.active_agents[aid].arrival_time = s7.time,
                          !.active_agents[aid].server_id = None],
               aid, nq, st, ia, cat)
        ELSE s7

-----------------------------------------------------------------------------
(* Metrics computed from the logs; a quotient a / b is kept as the pair       *)
(* <<a, b>>                                                                  *)

\* the loop of lines 411-420 over the first n intervals, for field k of the
\* snapshots (2: queue_length, 3: system_length, 4: num_busy)
RECURSIVE TimeWeightedTotal(_, _, _)
TimeWeightedTotal(state_data, k, n) ==
    IF n = 0 THEN 0
    ELSE TimeWeightedTotal(state_data, k, n - 1)
         + state_data[n][k] * (state_data[n + 1][1] - state_data[n][1])

\* lines 423-429: the final period, from the last snapshot to max_time
FinalPeriod(state_data, k, max_time) ==
    state_data[Len(state_data)][k]
        * (max_time - state_data[Len(state_data)][1])

TimeWeightedSystemFromWaiting(state_data, max_time) ==
    IF Len(state_data) < 2
    THEN [L |-> <<0, 1>>, Lq |-> <<0, 1>>, Ls |-> <<0, 1>>]
    ELSE LET total(k) ==
                TimeWeightedTotal(state_data, k, Len(state_data) - 1)
                + FinalPeriod(state_data, k, max_time)
         IN  [ L  |-> <<total(2), max_time>>,
               Lq |-> <<total(2), max_time>>,
               Ls |-> <<total(4), max_time>> ]

TimeWeightedNoFinalPeriod(state_data, max_time) ==
    IF Len(state_data) < 2
    THEN [L |-> <<0, 1>>, Lq |-> <<0, 1>>, Ls |-> <<0, 1>>]
    ELSE LET total(k) == TimeWeightedTotal(state_data, k, Len(state_data) - 1)
         IN  [ L  |-> <<total(3), max_time>>,
               Lq |-> <<total(2), max_time>>,
               Ls |-> <<total(4), max_time>> ]

\* QueueingNetwork.calculate_time_weighted_metrics on the snapshot log
\* state_data of one station
CalculateTimeWeightedMetrics(state_data, max_time) ==
    IF Len(state_data) < 2
    THEN [L |-> <<0, 1>>, Lq |-> <<0, 1>>, Ls |-> <<0, 1>>]
    ELSE LET total(k) ==
                TimeWeightedTotal(state_data, k, Len(state_data) - 1)
                + FinalPeriod(state_data, k, max_time)
         IN  [ L  |-> <<total(3), max_time>>,
               Lq |-> <<total(2), max_time>>,
               Ls |-> <<total(4), max_time>> ]

-----------------------------------------------------------------------------

\* lines 465-468: the summed durations of the first n busy periods that
\* belong to station q
RECURSIVE TotalBusyTime(_, _, _)
TotalBusyTime(busy_periods, n, q) ==
    IF n = 0 THEN 0
    ELSE TotalBusyTime(busy_periods, n - 1, q)
         + (IF busy_periods[n].queue_id = q
            THEN busy_periods[n].end_time - busy_periods[n].start_time
            ELSE 0)

\* QueueingNetwork.calculate_server_utilization
CalculateServerUtilization(s, q) ==
    IF \A n \in 1 .. Len(s.server_busy_periods) :
            s.server_busy_periods[n].queue_id # q
    THEN <<0, 1>>
    ELSE << TotalBusyTime(s.server_busy_periods,
                          Len(s.server_busy_periods), q),
            s.queues[q].num_servers * config.max_time >>

-----------------------------------------------------------------------------

LossProbabilityOverAllStations(s, q) ==
    IF s.arrival_counts[q] = 0 THEN <<0, 1>>
    ELSE << Len(s.rejected_agents), s.arrival_counts[q] >>

\* QueueingNetwork.calculate_loss_probability
CalculateLossProbability(s, q) ==
    LET total_arrivals == s.arrival_counts[q]
        rejections ==
            Cardinality({n \in 1 .. Len(s.rejected_agents) :
                            s.rejected_agents[n].queue_id = q})
    IN  IF total_arrivals = 0 THEN <<0, 1>>
        ELSE <<rejections, total_arrivals>>

\* get_statistics, line 593: the reported rejected_arrivals counter
RejectedArrivals(s, q) == s.arrival_counts[q] - s.accepted_arrival_counts[q]

-----------------------------------------------------------------------------

\* data[data[:, 5] == queue_id]: the records of log for station q, in order
RECURSIVE QueueData(_, _)
QueueData(log, q) ==
    IF log = << >> THEN << >>
    ELSE (IF Head(log)[6] = q THEN << Head(log) >> ELSE << >>)
         \o QueueData(Tail(log), q)

\* the sum of column minuend minus column subtrahend over the rows of data
RECURSIVE SumOfDifferences(_, _, _)
SumOfDifferences(data, minuend, subtrahend) ==
    IF data = << >> THEN 0
    ELSE Head(data)[minuend] - Head(data)[subtrahend]
         + SumOfDifferences(Tail(data), minuend, subtrahend)

\* lines 553-571 of get_statistics: the customer-averaged metrics of station q
CustomerAveraged(s, q) ==
    LET queue_data == QueueData(s.agents_data, q)
    IN  IF Len(queue_data) > 0
        THEN [ num_served |-> Len(queue_data),
               W  |-> << SumOfDifferences(queue_data, 4, 2), Len(queue_data) >>,
               Wq |-> << SumOfDifferences(queue_data, 3, 2), Len(queue_data) >>,
               Ws |-> << SumOfDifferences(queue_data, 4, 3), Len(queue_data) >>,
               max_queue_length_observed |->
                   CHOOSE m \in {queue_data[n][7] : n \in 1 .. Len(queue_data)} :
                       \A n \in 1 .. Len(queue_data) : queue_data[n][7] <= m ]
        ELSE [ num_served |-> 0,
               W  |-> <<0, 1>>,
               Wq |-> <<0, 1>>,
               Ws |-> <<0, 1>>,
               max_queue_length_observed |-> 0 ]

\* QueueingNetwork.get_statistics, customer-averaged part: a function from
\* the stations reported to their entries ({} when nothing was logged)
GetStatistics(s) ==
    IF s.agents_data = << >>
    THEN << >>
    ELSE [q \in QueueIds |-> CustomerAveraged(s, q)]

-----------------------------------------------------------------------------

(* The event heap: tuples compare as Python tuples do *)

ElemKeyKindReversed(e, i) ==
    IF i = 5 THEN CategoryRank(e[i])
    ELSE IF i = 2 THEN DEPARTURE - e[i]
    ELSE e[i]

ElemKey(e, i) == IF i = 5 THEN CategoryRank(e[i]) ELSE e[i]

TupleLessByTime(e, f, i) == e[1] < f[1]

RECURSIVE TupleLess(_, _, _)
\* tuple comparison e < f from position i on, as heapq applies it
TupleLess(e, f, i) ==
    IF i > Len(e) THEN i <= Len(f)
    ELSE IF i > Len(f) THEN FALSE
    ELSE IF ElemKey(e, i) < ElemKey(f, i) THEN TRUE
    ELSE IF ElemKey(e, i) > ElemKey(f, i) THEN FALSE
    ELSE TupleLess(e, f, i + 1)

HeapPopLargest(heap) == {e \in heap : \A f \in heap : ~TupleLess(e, f, 1)}

\* heapq.heappop: the tuples it can return, those no other tuple is less than
HeapPop(heap) == {e \in heap : \A f \in heap : ~TupleLess(f, e, 1)}

-----------------------------------------------------------------------------
(* simulate() *)

WithinHorizonUnchecked(e) == TRUE

WithinHorizonStrict(e) == e[1] < config.max_time

\* the test of lines 651-652, negated
WithinHorizon(e) == e[1] <= config.max_time

IterateOneClass(s, e, st_next, nq, st, ia, cat) ==
    LET agent_id == e[3]
        s0 == [s EXCEPT !.time = e[1], !.event_queue = @ \ {e}, !.event = e]
    IN  IF ~WithinHorizon(e)
        THEN [s0 EXCEPT !.pc = "done"]
        ELSE IF e[2] = ARRIVAL
        THEN HandleArrival(
               IF agent_id \notin DOMAIN s0.active_agents
               THEN [s0 EXCEPT !.active_agents =
                       (agent_id :> NewAgent(s0.time, agent_id, "A")) @@ @]
               ELSE s0,
               agent_id, e[4], st, ia, cat)
        ELSE HandleDeparture(s0, agent_id, e[4], st_next, nq, st, ia, cat)

\* lines 643-666: one iteration of the event loop on the popped event e
Iterate(s, e, st_next, nq, st, ia, cat) ==
    LET agent_id == e[3]
        s0 == [s EXCEPT !.time = e[1], !.event_queue = @ \ {e}, !.event = e]
    IN  IF ~WithinHorizon(e)
        THEN [s0 EXCEPT !.pc = "done"]
        ELSE IF e[2] = ARRIVAL
        THEN HandleArrival(
               IF agent_id \notin DOMAIN s0.active_agents
               THEN [s0 EXCEPT !.active_agents =
                       (agent_id :> NewAgent(s0.time, agent_id, e[5])) @@ @]
               ELSE s0,
               agent_id, e[4], st, ia, cat)
        ELSE HandleDeparture(s0, agent_id, e[4], st_next, nq, st, ia, cat)

\* The draws handling event e consumes in run s.  The code draws a service
\* time only in assign_server, an interarrival time only in
\* schedule_next_arrival and a category only when the next arrival lies within
\* the horizon; a draw that is not made is represented by one fixed value.
Undrawn(S) == {CHOOSE x \in S : TRUE}

\* the station at which handle_arrival runs while e is handled with routing
\* result nq, None if it does not run
ArrivalStation(e, nq) ==
    IF ~WithinHorizon(e) THEN None
    ELSE IF e[2] = ARRIVAL THEN e[4]
    ELSE IF nq # None /\ nq # e[4] THEN nq ELSE None

\* handle_arrival at station q does not reject
Admits(s, q) == GetFreeServer(s.queues[q]) # None \/ ~IsFull(s.queues[q])

\* lines 271, 307: the service time of the agent taken from the waiting line
NextServiceDraws(s, e) ==
    IF WithinHorizon(e) /\ e[2] = DEPARTURE
       /\ s.queues[e[4]].waiting_queue # << >>
    THEN Durations ELSE Undrawn(Durations)

\* lines 201, 307: the service time of an agent assigned a server on arrival
ServiceDraws(s, q) ==
    IF q # None /\ GetFreeServer(s.queues[q]) # None
    THEN Durations ELSE Undrawn(Durations)

\* line 146, reached through lines 226-228
InterarrivalDraws(s, q) ==
    IF q # None /\ q = config.arrival_queue /\ Admits(s, q)
    THEN Durations ELSE Undrawn(Durations)

\* line 154, reached when the next arrival time ia ticks after t is within
\* the horizon
CategoryDraws(s, q, t, ia) ==
    IF q # None /\ q = config.arrival_queue /\ Admits(s, q)
       /\ t + ia <= config.max_time
    THEN AssignCategory ELSE Undrawn(AssignCategory)

Commit(s) ==
    /\ time' = s.time
    /\ event_queue' = s.event_queue
    /\ queues' = s.queues
    /\ active_agents' = s.active_agents
    /\ agents_data' = s.agents_data
    /\ rejected_agents' = s.rejected_agents
    /\ agent_counter' = s.agent_counter
    /\ state_changes' = s.state_changes
    /\ server_busy_periods' = s.server_busy_periods
    /\ arrival_counts' = s.arrival_counts
    /\ accepted_arrival_counts' = s.accepted_arrival_counts
    /\ arrival_counts_by_category' = s.arrival_counts_by_category
    /\ accepted_arrival_counts_by_category' = s.accepted_arrival_counts_by_category
    /\ agents_data_by_category' = s.agents_data_by_category
    /\ pc' = s.pc
    /\ event' = s.event
    /\ next_queue_id' = s.next_queue_id

\* QueueingNetwork.__init__
Constructed ==
    /\ config \in Configs
    /\ time = 0
    /\ event_queue = {}
    /\ queues = [q \in QueueIds |->
                    NewQueue(config.num_servers[q], config.capacities[q])]
    /\ active_agents = << >>
    /\ agents_data = << >>
    /\ rejected_agents = << >>
    /\ agent_counter = 0
    /\ state_changes = [q \in QueueIds |-> << >>]
    /\ server_busy_periods = << >>
    /\ arrival_counts = [q \in QueueIds |-> 0]
    /\ accepted_arrival_counts = [q \in QueueIds |-> 0]
    /\ arrival_counts_by_category =
            [c \in Categories |-> [q \in QueueIds |-> 0]]
    /\ accepted_arrival_counts_by_category =
            [c \in Categories |-> [q \in QueueIds |-> 0]]
    /\ agents_data_by_category = [c \in Categories |-> << >>]
    /\ pc = "start"
    /\ event = << >>
    /\ next_queue_id = None

\* one run
Init == Constructed /\ replica = << >>

\* lines 633-635: the initial snapshot of the first n stations
RECURSIVE RecordInitialState(_, _)
RecordInitialState(s, n) ==
    IF n = 0 THEN s
    ELSE RecordStateChange(RecordInitialState(s, n - 1), n - 1)

\* lines 633-638: the initial snapshots and the first external arrival
Start ==
    /\ pc = "start"
    /\ \E ia \in Durations, cat \in AssignCategory :
          Commit([ScheduleNextArrival(
                     RecordInitialState(Self, NumQueues), ia, cat)
                  EXCEPT !.pc = "loop"])
    /\ UNCHANGED <<config, replica>>

LoopConditionIgnoresHeap == time <= config.max_time

\* the loop condition of line 641
LoopCondition == event_queue # {} /\ time <= config.max_time

\* lines 654-662: an ARRIVAL event within the horizon is popped and handled
ArrivalEvent ==
    /\ pc = "loop"
    /\ LoopCondition
    /\ \E e \in HeapPop(event_queue) :
          /\ WithinHorizon(e)
          /\ e[2] = ARRIVAL
          /\ \E st \in ServiceDraws(Self, e[4]),
                ia \in InterarrivalDraws(Self, e[4]) :
             \E cat \in CategoryDraws(Self, e[4], e[1], ia) :
                Commit(Iterate(Self, e, st, None, st, ia, cat))
    /\ UNCHANGED <<config, replica>>

\* lines 664-666: a DEPARTURE event within the horizon is popped and handled
DepartureEvent ==
    /\ pc = "loop"
    /\ LoopCondition
    /\ \E e \in HeapPop(event_queue) :
          /\ WithinHorizon(e)
          /\ e[2] = DEPARTURE
          /\ \E nq \in RouteAgent(active_agents[e[3]].category, e[4]) :
             \E st_next \in NextServiceDraws(Self, e),
                st \in ServiceDraws(Self, ArrivalStation(e, nq)),
                ia \in InterarrivalDraws(Self, ArrivalStation(e, nq)) :
             \E cat \in CategoryDraws(Self, ArrivalStation(e, nq), e[1], ia) :
                Commit(Iterate(Self, e, st_next, nq, st, ia, cat))
    /\ UNCHANGED <<config, replica>>

\* lines 651-652: the popped event lies beyond the horizon, the loop ends
Break ==
    /\ pc = "loop"
    /\ LoopCondition
    /\ \E e \in HeapPop(event_queue) :
          /\ ~WithinHorizon(e)
          /\ Commit(Iterate(Self, e, 1, None, 1, 1, "A"))
    /\ UNCHANGED <<config, replica>>

\* line 641: the loop ends because the heap is empty
LoopExit ==
    /\ pc = "loop"
    /\ ~LoopCondition
    /\ Commit([Self EXCEPT !.pc = "done"])
    /\ UNCHANGED <<config, replica>>

Next == Start \/ ArrivalEvent \/ DepartureEvent \/ Break \/ LoopExit

Spec == Init /\ [][Next]_vars

-----------------------------------------------------------------------------
\* Next as seen on pc and event: the run starts, or the loop pops the least
\* event of the heap, or the loop ends
Progress ==
    \/ pc = "start" /\ pc' = "loop" /\ event' = event
    \/ /\ pc = "loop" /\ LoopCondition
       /\ event' \in HeapPop(event_queue) /\ pc' \in {"loop", "done"}
    \/ pc = "loop" /\ ~LoopCondition /\ pc' = "done" /\ event' = event

\* simulate() is a sequential loop: as long as an iteration is possible, one
\* is executed
SpecLive == Init /\ [][Next]_vars /\ WF_<<pc, event>>(Progress)

-----------------------------------------------------------------------------

(* Two runs of one configuration fed the same draws (run_from_config seeds  *)
(* the generator, so both runs see the same sequence).  Each run pops from  *)
(* its own heap.                                                            *)

InitTwoRuns == Constructed /\ replica = Self

\* the routing results open to run s when it handles event e
RouteChoices(s, e) ==
    IF WithinHorizon(e) /\ e[2] = DEPARTURE
    THEN RouteAgent(s.active_agents[e[3]].category, e[4])
    ELSE {None}

StartTwoRuns ==
    /\ pc = "start"
    /\ replica.pc = "start"
    /\ \E ia \in Durations, cat \in AssignCategory :
          /\ Commit([ScheduleNextArrival(
                        RecordInitialState(Self, NumQueues), ia, cat)
                     EXCEPT !.pc = "loop"])
          /\ replica' = [ScheduleNextArrival(
                            RecordInitialState(replica, NumQueues), ia, cat)
                         EXCEPT !.pc = "loop"]
    /\ UNCHANGED config

\* both runs execute one iteration of the loop with the same draws; the same
\* routing draw gives the same result when both handle the same event
IterateTwoRuns ==
    /\ pc = "loop"
    /\ LoopCondition
    /\ replica.pc = "loop"
    /\ \E e \in HeapPop(event_queue), e2 \in HeapPop(replica.event_queue) :
       \E nq \in RouteChoices(Self, e), nq2 \in RouteChoices(replica, e2) :
       \E st_next \in NextServiceDraws(Self, e),
          st \in ServiceDraws(Self, ArrivalStation(e, nq)),
          ia \in InterarrivalDraws(Self, ArrivalStation(e, nq)) :
       \E cat \in CategoryDraws(Self, ArrivalStation(e, nq), e[1], ia) :
          /\ e2 = e => nq2 = nq
          /\ Commit(Iterate(Self, e, st_next, nq, st, ia, cat))
          /\ replica' = Iterate(replica, e2, st_next, nq2, st, ia, cat)
    /\ UNCHANGED config

LoopExitTwoRuns ==
    /\ pc = "loop"
    /\ ~LoopCondition
    /\ Commit([Self EXCEPT !.pc = "done"])
    /\ replica' = [replica EXCEPT !.pc = "done"]
    /\ UNCHANGED config

NextTwoRuns == StartTwoRuns \/ IterateTwoRuns \/ LoopExitTwoRuns

SpecTwoRuns == InitTwoRuns /\ [][NextTwoRuns]_vars

-----------------------------------------------------------------------------
(* Vocabulary of the properties *)

\* a step of the event loop that handled an ARRIVAL / a DEPARTURE event
ArrivalStep ==
    pc = "loop" /\ pc' = "loop" /\ event' # event /\ event'[2] = ARRIVAL
DepartureStep ==
    pc = "loop" /\ pc' = "loop" /\ event' # event /\ event'[2] = DEPARTURE

\* the step handled an arrival at station q: an external one, or the routing
\* hop of the agent whose departure was handled
ArrivedAt(q) ==
    \/ ArrivalStep /\ event'[4] = q
    \/ DepartureStep /\ next_queue_id' = q /\ q # event'[4]

AllServersBusy(q) == \A i \in DOMAIN queues[q].servers : queues[q].servers[i].is_busy

WaitingLineAtCapacity(q) ==
    /\ queues[q].capacity # Inf
    /\ Len(queues[q].waiting_queue) >= queues[q].capacity

RejectionsAt(q) ==
    Cardinality({i \in 1 .. Len(rejected_agents) : rejected_agents[i].queue_id = q})

PendingDepartures(heap, aid) == {e \in heap : e[2] = DEPARTURE /\ e[3] = aid}

\* the stations of qs in which agent aid waits or is served
StationsHolding(qs, aid) ==
    {q \in QueueIds :
        \/ \E i \in 1 .. Len(qs[q].waiting_queue) : qs[q].waiting_queue[i] = aid
        \/ \E i \in DOMAIN qs[q].servers : qs[q].servers[i].current_agent = aid}

RowAllZero(category, q) ==
    \A j \in QueueIds : config.routing_matrices[category][q][j] = 0

AllCapacitiesUnbounded == \A q \in QueueIds : config.capacities[q] = Inf

\* no station routes agents of any class into the entry station
NoRoutingIntoEntry ==
    \A c \in Categories, i \in QueueIds :
        config.routing_matrices[c][i][config.arrival_queue] = 0

-----------------------------------------------------------------------------
(* C1 *)

\* C1: in every reachable state the waiting line of every station with a
\* finite capacity holds at most capacity agents (agents in service are not
\* counted).
C1_WaitingLineWithinCapacity ==
    \A q \in QueueIds :
        queues[q].capacity # Inf =>
            Len(queues[q].waiting_queue) <= queues[q].capacity

\* a station whose waiting line is at capacity and that has rejected an agent
C1_Witness ==
    \E q \in QueueIds :
        /\ queues[q].capacity # Inf
        /\ Len(queues[q].waiting_queue) = queues[q].capacity
        /\ AllServersBusy(q)
        /\ RejectionsAt(q) > 0

-----------------------------------------------------------------------------
(* C2 *)

\* C2: every external ARRIVAL event that is handled schedules exactly one
\* next external arrival when the drawn arrival time is within the horizon,
\* whatever happens to the arriving agent.  Stated for the steps after which
\* every possible draw is within the horizon (time + MaxDur <= max_time).
C2_ArrivalEventSchedulesNext ==
    [][ (ArrivalStep /\ time' + MaxDur <= config.max_time) =>
            Cardinality({e \in event_queue' \ event_queue : e[2] = ARRIVAL}) = 1
      ]_vars

-----------------------------------------------------------------------------
(* C3 *)

\* C3: the waiting line of a station changes only by appending at its tail
\* and by removing its head, and the removed head starts service at that
\* station in the same step; so agents leave the line in the order they
\* were appended.
C3_WaitingLineIsFIFO ==
    [][ \A q \in QueueIds :
          LET w == queues[q].waiting_queue
              w2 == queues'[q].waiting_queue
              taken == \E i \in DOMAIN queues'[q].servers :
                          /\ queues'[q].servers[i].current_agent = Head(w)
                          /\ active_agents'[Head(w)].service_start_time = time'
          IN  \/ w2 = w
              \/ Len(w2) = Len(w) + 1 /\ SubSeq(w2, 1, Len(w)) = w
              \/ w # << >> /\ w2 = Tail(w) /\ taken
              \/ /\ w # << >> /\ Len(w2) = Len(w)
                 /\ SubSeq(w2, 1, Len(w) - 1) = Tail(w) /\ taken
      ]_vars

\* an agent that had to wait is in service while an agent that arrived
\* behind a non-empty line still waits at the same station
C3_Witness ==
    \E q \in QueueIds :
        /\ \E i \in DOMAIN queues[q].servers :
              LET a == queues[q].servers[i].current_agent
              IN  /\ a # None
                  /\ active_agents[a].service_start_time > active_agents[a].arrival_time
        /\ \E k \in 1 .. Len(queues[q].waiting_queue) :
              active_agents[queues[q].waiting_queue[k]].queue_length_on_arrival >= 1

-----------------------------------------------------------------------------
(* C4 *)

\* C4: the clock never decreases from one handled event to the next, and
\* every event pushed during a step is scheduled at or after the clock.
C4_ClockMonotonic ==
    [][ /\ time' >= time
        /\ \A e \in event_queue' \ event_queue : e[1] >= time'
      ]_vars

\* a departure has been handled while further events are pending
C4_Witness ==
    /\ pc = "loop"
    /\ time > 1
    /\ agents_data # << >>
    /\ Cardinality(event_queue) >= 2

-----------------------------------------------------------------------------
(* C5 *)

\* C5 as stated: at the end of a run, for every configuration, the agent ids
\* issued equal the accepted plus the rejected arrivals at the entry station.
C5_Original ==
    pc = "done" =>
        agent_counter =
            accepted_arrival_counts[config.arrival_queue]
            + RejectionsAt(config.arrival_queue)

\* C5 amended: the equality holds at the end of a run for the configurations
\* in which no routing matrix has a positive probability of sending an agent
\* into the entry station.
C5_ExternalArrivalsConserved ==
    (pc = "done" /\ NoRoutingIntoEntry) =>
        agent_counter =
            accepted_arrival_counts[config.arrival_queue]
            + RejectionsAt(config.arrival_queue)

\* a finished run without routing into the entry station that accepted and
\* rejected agents there
C5_Witness ==
    /\ pc = "done"
    /\ NoRoutingIntoEntry
    /\ accepted_arrival_counts[config.arrival_queue] >= 2
    /\ RejectionsAt(config.arrival_queue) >= 1

-----------------------------------------------------------------------------
(* C6 *)

\* C6: an agent arriving at a station with no idle server and a waiting line
\* at capacity is rejected: exactly one record (agent id, clock, station,
\* class) is appended to the rejection log, no DEPARTURE event is pending
\* for the agent, and the station's waiting line and servers are unchanged.
C6_FullStationRejects ==
    [][ \A q \in QueueIds :
          (ArrivedAt(q) /\ AllServersBusy(q) /\ WaitingLineAtCapacity(q)) =>
              /\ rejected_agents' = Append(rejected_agents,
                    [ agent_id |-> event'[3],
                      rejection_time |-> time',
                      queue_id |-> q,
                      category |-> active_agents'[event'[3]].category ])
              /\ PendingDepartures(event_queue', event'[3]) = {}
              /\ queues'[q] = queues[q]
              /\ accepted_arrival_counts'[q] = accepted_arrival_counts[q]
      ]_vars

\* the agent of the event handled last has just been rejected
C6_Witness ==
    /\ pc = "loop"
    /\ rejected_agents # << >>
    /\ rejected_agents[Len(rejected_agents)].agent_id = event[3]
    /\ rejected_agents[Len(rejected_agents)].rejection_time = time

-----------------------------------------------------------------------------
(* C7 *)

\* C7: when every station's capacity is unbounded the rejection log is empty
\* in every reachable state.
C7_NoRejectionWhenUnbounded ==
    AllCapacitiesUnbounded => rejected_agents = << >>

\* an unbounded station whose waiting line holds two agents
C7_Witness ==
    /\ AllCapacitiesUnbounded
    /\ \E q \in QueueIds :
          AllServersBusy(q) /\ Len(queues[q].waiting_queue) >= 2

-----------------------------------------------------------------------------
(* C8 *)

\* C8: when the routing row of the departing agent's class for the station
\* it departs from is all zeros, the departure triggers no arrival: no
\* arrival count changes, nothing is rejected, and the agent is in no
\* station afterwards.
C8_ZeroRowExits ==
    [][ (DepartureStep /\ RowAllZero(active_agents[event'[3]].category, event'[4])) =>
            /\ next_queue_id' = None
            /\ arrival_counts' = arrival_counts
            /\ arrival_counts_by_category' = arrival_counts_by_category
            /\ accepted_arrival_counts' = accepted_arrival_counts
            /\ rejected_agents' = rejected_agents
            /\ StationsHolding(queues', event'[3]) = {}
      ]_vars

\* the departure handled last left a station whose row is all zeros
C8_Witness ==
    /\ pc = "loop"
    /\ event # << >>
    /\ event[2] = DEPARTURE
    /\ RowAllZero(active_agents[event[3]].category, event[4])
    /\ agents_data # << >>
    /\ agents_data[Len(agents_data)][1] = event[3]

-----------------------------------------------------------------------------
(* C9 *)

\* C9: no event scheduled after the horizon is handled: while the loop runs
\* the event handled last is within the horizon, every logged departure
\* time, rejection time and snapshot timestamp is at most the horizon, and
\* an agent whose stamped departure time exceeds the horizon is still held
\* by a server and has no record with that departure time.
C9_HorizonRespected ==
    /\ (pc = "loop" /\ event # << >>) => event[1] <= config.max_time
    /\ time > config.max_time => pc = "done"
    /\ \A i \in 1 .. Len(agents_data) : agents_data[i][4] <= config.max_time
    /\ \A i \in 1 .. Len(rejected_agents) :
          rejected_agents[i].rejection_time <= config.max_time
    /\ \A q \in QueueIds : \A i \in 1 .. Len(state_changes[q]) :
          state_changes[q][i][1] <= config.max_time
    /\ \A a \in DOMAIN active_agents :
          active_agents[a].departure_time > config.max_time =>
              \E q \in QueueIds : \E i \in DOMAIN queues[q].servers :
                  queues[q].servers[i].current_agent = a

\* the run was stopped by an event beyond the horizon while an agent whose
\* service ends after the horizon is on a server
C9_Witness ==
    /\ pc = "done"
    /\ event # << >>
    /\ event[1] > config.max_time
    /\ \E q \in QueueIds : \E i \in DOMAIN queues[q].servers :
          /\ queues[q].servers[i].is_busy
          /\ active_agents[queues[q].servers[i].current_agent].departure_time
                > config.max_time

-----------------------------------------------------------------------------
(* C10 *)

-----------------------------------------------------------------------------
(* C11 *)

\* every class is routed by the series matrix and no waiting line is bounded
LosslessSeries ==
    /\ AllCapacitiesUnbounded
    /\ \A c \in Categories : config.routing_matrices[c] = SeriesMatrix

\* the completed-agent records of log for station q
CompletedAt(log, q) ==
    Cardinality({i \in 1 .. Len(log) : log[i][6] = q})

\* C11: in a lossless series network, after every handled event the arrivals
\* counted at station i+1 equal the completed-agent records of station i,
\* and every such arrival is accepted.
C11_SeriesConservation ==
    LosslessSeries =>
        \A i \in QueueIds :
            (i + 1) \in QueueIds =>
                /\ arrival_counts[i + 1] = CompletedAt(agents_data, i)
                /\ accepted_arrival_counts[i + 1] = arrival_counts[i + 1]

\* a lossless series network in which two agents have moved on to the next
\* station and one of them waits there
C11_Witness ==
    /\ LosslessSeries
    /\ \E i \in QueueIds :
          /\ (i + 1) \in QueueIds
          /\ arrival_counts[i + 1] >= 2
          /\ CompletedAt(agents_data, i) >= 2
          /\ queues[i + 1].waiting_queue # << >>

-----------------------------------------------------------------------------
(* C12 *)

\* the routing probability (in percent) of class category from station i to j
RoutingProbability(category, i, j) == config.routing_matrices[category][i][j]

\* C12: the routing result of a handled departure from station i is a
\* station j whose probability in the row of the agent's class is strictly
\* positive; a station with probability 0 in that row counts no arrival in
\* that step and does not hold the agent afterwards.
C12_RoutedOnlyWherePositive ==
    [][ DepartureStep =>
          LET category == active_agents[event'[3]].category
              i == event'[4]
          IN  /\ next_queue_id' # None =>
                    RoutingProbability(category, i, next_queue_id') > 0
              /\ \A j \in QueueIds :
                    RoutingProbability(category, i, j) = 0 =>
                        /\ arrival_counts'[j] = arrival_counts[j]
                        /\ j \notin StationsHolding(queues', event'[3])
      ]_vars

\* the departure handled last was routed to another station, out of a row
\* that also has a zero entry, and the agent is held there
C12_Witness ==
    /\ pc = "loop"
    /\ event # << >>
    /\ event[2] = DEPARTURE
    /\ next_queue_id # None
    /\ next_queue_id # event[4]
    /\ next_queue_id \in StationsHolding(queues, event[3])
    /\ \E j \in QueueIds :
          RoutingProbability(active_agents[event[3]].category, event[4], j) = 0

-----------------------------------------------------------------------------
(* C13 *)

\* the completed-agent record agent a of table agents would get at station q
VisitRecord(agents, a, q) ==
    << a, agents[a].arrival_time, agents[a].service_start_time,
       agents[a].departure_time, agents[a].server_id, q,
       agents[a].queue_length_on_arrival >>

\* the records due to the agents that are being served
InServiceVisits(qs, agents) ==
    UNION { { VisitRecord(agents, qs[q].servers[i].current_agent, q) :
                i \in {k \in DOMAIN qs[q].servers : qs[q].servers[k].is_busy} } :
            q \in QueueIds }

RecordsOf(log, r) == Cardinality({i \in 1 .. Len(log) : log[i] = r})

\* C13: a visit in service has no record yet and no record is logged twice;
\* a visit leaves service only by getting exactly one record with its
\* times, server and station, and records are never removed; and eventually
\* no visit whose stamped departure time is within the horizon is still in
\* service.  Hence every accepted agent whose stamped departure time is
\* within the horizon eventually has exactly one record for that visit.
C13_DueVisitsGetOneRecord ==
    /\ [](/\ \A r \in InServiceVisits(queues, active_agents) :
                RecordsOf(agents_data, r) = 0
          /\ \A i \in 1 .. Len(agents_data) :
                RecordsOf(agents_data, agents_data[i]) = 1)
    /\ [][ /\ \A r \in InServiceVisits(queues, active_agents) :
                \/ r \in InServiceVisits(queues', active_agents')
                \/ RecordsOf(agents_data', r) = 1
           /\ Len(agents_data') >= Len(agents_data)
           /\ SubSeq(agents_data', 1, Len(agents_data)) = agents_data
         ]_vars
    /\ <>[](\A r \in InServiceVisits(queues, active_agents) :
                r[4] > config.max_time)

\* a finished run that logged a visit which began in the waiting line and
\* ended exactly at the horizon
C13_Witness ==
    /\ pc = "done"
    /\ \E i \in 1 .. Len(agents_data) :
          /\ agents_data[i][3] > agents_data[i][2]
          /\ agents_data[i][4] = config.max_time

-----------------------------------------------------------------------------
(* C14 *)

\* equality of two quotients
SameQuotient(a, b) == a[1] * b[2] = b[1] * a[2]

\* the value of field k that log holds at tick t: that of the last snapshot
\* taken at or before t
HeldAt(log, k, t) ==
    LET taken == {i \in 1 .. Len(log) : log[i][1] <= t}
    IN  log[CHOOSE i \in taken : \A j \in taken : j <= i][k]

\* the integral over [0, h] of the step function that log describes
RECURSIVE StepIntegral(_, _, _)
StepIntegral(log, k, h) ==
    IF h = 0 THEN 0 ELSE StepIntegral(log, k, h - 1) + HeldAt(log, k, h - 1)

\* the durations of the intervals calculate_time_weighted_metrics sums over:
\* those between the first n + 1 snapshots
RECURSIVE IntervalDurations(_, _)
IntervalDurations(log, n) ==
    IF n = 0 THEN 0
    ELSE IntervalDurations(log, n - 1) + (log[n + 1][1] - log[n][1])

\* C14: for every station, once the initial snapshot is taken, Lq, L and Ls
\* of calculate_time_weighted_metrics equal the step-function integral of
\* the waiting, in-system and busy-server counts over [0, horizon] divided
\* by the horizon, and the interval durations with the final period add up
\* to the horizon (also when the initial snapshot is the only one).
C14_TimeWeightedIsStepIntegral ==
    pc # "start" =>
        \A q \in QueueIds :
            LET log == state_changes[q]
                m == CalculateTimeWeightedMetrics(log, config.max_time)
                reference(k) ==
                    << StepIntegral(log, k, config.max_time), config.max_time >>
            IN  /\ SameQuotient(m.Lq, reference(2))
                /\ SameQuotient(m.L, reference(3))
                /\ SameQuotient(m.Ls, reference(4))
                /\ IntervalDurations(log, Len(log) - 1)
                      + (config.max_time - log[Len(log)][1]) = config.max_time

\* a finished run in which one station's last snapshot, taken before the
\* horizon, shows a busy server, and another station has only its initial
\* snapshot
C14_Witness ==
    /\ pc = "done"
    /\ \E q \in QueueIds :
          LET log == state_changes[q]
          IN  /\ Len(log) >= 2
              /\ log[Len(log)][1] < config.max_time
              /\ log[Len(log)][4] > 0
    /\ \E q \in QueueIds : Len(state_changes[q]) = 1

-----------------------------------------------------------------------------
(* C15 *)

\* C15: at the end of a run, for every station, the utilization numerator
\* (the summed durations of the station's logged busy periods) equals the
\* integral of the busy-server count over [0, horizon], service in progress
\* at the horizon included; equivalently rho * server_count = Ls.
C15_UtilizationIsBusyTime ==
    pc = "done" =>
        \A q \in QueueIds :
            LET rho == CalculateServerUtilization(Self, q)
                Ls == CalculateTimeWeightedMetrics(
                          state_changes[q], config.max_time).Ls
            IN  /\ TotalBusyTime(server_busy_periods,
                                 Len(server_busy_periods), q)
                      = StepIntegral(state_changes[q], 4, config.max_time)
                /\ SameQuotient(<<rho[1] * queues[q].num_servers, rho[2]>>, Ls)

-----------------------------------------------------------------------------
(* C16 *)

\* C16: in every reachable state and for every station, the rejection-log
\* records of the station number arrival_counts minus
\* accepted_arrival_counts, and P_loss is a quotient in [0, 1] that agrees
\* with the reported rejected_arrivals counter.
C16_RejectionsMatchCounters ==
    \A q \in QueueIds :
        LET P_loss == CalculateLossProbability(Self, q)
        IN  /\ RejectionsAt(q) = arrival_counts[q] - accepted_arrival_counts[q]
            /\ P_loss[2] > 0
            /\ 0 <= P_loss[1]
            /\ P_loss[1] <= P_loss[2]
            /\ SameQuotient(P_loss,
                   << RejectedArrivals(Self, q),
                      IF arrival_counts[q] = 0 THEN 1 ELSE arrival_counts[q] >>)

\* one station has accepted two agents and rejected one, and another station
\* has counted an arrival
C16_Witness ==
    \E q, r \in QueueIds :
        /\ q # r
        /\ RejectionsAt(q) >= 1
        /\ accepted_arrival_counts[q] >= 2
        /\ arrival_counts[r] >= 1

-----------------------------------------------------------------------------
(* C17 *)

\* the entry of a station without completed agents
ZeroEntry ==
    [ num_served |-> 0, W |-> <<0, 1>>, Wq |-> <<0, 1>>, Ws |-> <<0, 1>>,
      max_queue_length_observed |-> 0 ]

\* C17: after a run, get_statistics has, for every station with zero
\* completed agents, an entry whose customer-averaged metrics are zero; also
\* when no station has a completed agent.
C17_ZeroCompletedReportsZeros ==
    pc = "done" =>
        \A q \in QueueIds :
            CompletedAt(agents_data, q) = 0 =>
                /\ q \in DOMAIN GetStatistics(Self)
                /\ GetStatistics(Self)[q] = ZeroEntry

-----------------------------------------------------------------------------
(* C19 *)

\* the external ARRIVAL events pending in heap
PendingArrivals(heap) == {e \in heap : e[2] = ARRIVAL}

\* C19: at any time at most one external ARRIVAL event is pending (a next
\* external arrival is scheduled only while an external ARRIVAL event is
\* handled, never by an agent routed into the entry station).
C19_OnePendingExternalArrival ==
    Cardinality(PendingArrivals(event_queue)) <= 1

-----------------------------------------------------------------------------
(* C20 *)

\* C20: when a handled departure from station i selects a destination j
\* (any j with a positive probability, j = i included), the agent arrives
\* at j: the arrival count of j is incremented and the agent is served or
\* queued there or a rejection at j is logged; and the agent leaves the
\* network only when the routing result is no station (an all-zero row or
\* the residual portion of the row).
C20_SelectedDestinationReceives ==
    [][ DepartureStep =>
          LET a == event'[3]
              j == next_queue_id'
          IN  /\ j # None =>
                    /\ arrival_counts'[j] = arrival_counts[j] + 1
                    /\ \/ j \in StationsHolding(queues', a)
                       \/ /\ Len(rejected_agents') = Len(rejected_agents) + 1
                          /\ rejected_agents'[Len(rejected_agents')].agent_id = a
                          /\ rejected_agents'[Len(rejected_agents')].queue_id = j
              /\ (StationsHolding(queues', a) = {}
                  /\ rejected_agents' = rejected_agents) => j = None
      ]_vars

-----------------------------------------------------------------------------
(* C21 *)

\* C21: when a DEPARTURE is handled at a station whose waiting line is not
\* empty, the head of the line is removed and put on the server the
\* departing agent has just released, its service_start_time is the clock,
\* its DEPARTURE event at the stamped departure time is the one pending
\* event for it, and that server is busy when the step completes.
C21_HeadTakesReleasedServer ==
    [][ (DepartureStep /\ queues[event'[4]].waiting_queue # << >>) =>
          LET q == event'[4]
              server_id == active_agents[event'[3]].server_id
              head == Head(queues[q].waiting_queue)
          IN  /\ queues'[q].waiting_queue = Tail(queues[q].waiting_queue)
              /\ queues'[q].servers[server_id] =
                    [is_busy |-> TRUE, current_agent |-> head]
              /\ active_agents'[head].service_start_time = time'
              /\ active_agents'[head].server_id = server_id
              /\ active_agents'[head].departure_time > time'
              /\ PendingDepartures(event_queue', head) =
                    {<< active_agents'[head].departure_time, DEPARTURE, head, q >>}
              /\ PendingDepartures(event_queue, head) = {}
      ]_vars

\* the departure handled last left a station where an agent that had waited
\* since an earlier tick is now served from the current clock on
C21_Witness ==
    /\ pc = "loop"
    /\ event # << >>
    /\ event[2] = DEPARTURE
    /\ \E i \in DOMAIN queues[event[4]].servers :
          LET b == queues[event[4]].servers[i].current_agent
          IN  /\ queues[event[4]].servers[i].is_busy
              /\ b # event[3]
              /\ active_agents[b].service_start_time = time
              /\ active_agents[b].arrival_time < time

-----------------------------------------------------------------------------
(* C22 *)

\* the servers of station j in qs that hold agent a
ServersHolding(qs, j, a) ==
    {i \in DOMAIN qs[j].servers : qs[j].servers[i].current_agent = a}

\* C22: when the agent of a handled departure from station i is routed to
\* another station j, its arrival at j is handled in the same step (counted
\* at j at the unchanged clock), its arrival_time is the departure_time just
\* logged for station i, and its server_id is that of the server of j it was
\* put on, or None when it waits or was rejected there (the server of i was
\* cleared before the arrival was handled).
C22_RoutingHopTakesNoTime ==
    [][ (DepartureStep /\ next_queue_id' # None /\ next_queue_id' # event'[4]) =>
          LET a == event'[3]
              i == event'[4]
              j == next_queue_id'
              record == agents_data'[Len(agents_data')]
          IN  /\ time' = event'[1]
              /\ arrival_counts'[j] = arrival_counts[j] + 1
              /\ Len(agents_data') = Len(agents_data) + 1
              /\ record[1] = a /\ record[6] = i /\ record[4] = time'
              /\ active_agents'[a].arrival_time = record[4]
              /\ IF ServersHolding(queues', j, a) # {}
                 THEN ServersHolding(queues', j, a) =
                          {active_agents'[a].server_id}
                 ELSE active_agents'[a].server_id = None
      ]_vars

\* the departure handled last was routed to another station, where the
\* agent waits in line with the current clock as arrival time
C22_Witness ==
    /\ pc = "loop"
    /\ event # << >>
    /\ event[2] = DEPARTURE
    /\ next_queue_id # None
    /\ next_queue_id # event[4]
    /\ ServersHolding(queues, next_queue_id, event[3]) = {}
    /\ next_queue_id \in StationsHolding(queues, event[3])
    /\ active_agents[event[3]].arrival_time = time
    /\ active_agents[event[3]].server_id = None

-----------------------------------------------------------------------------
(* C23 *)

\* e comes before f in the order on the contents of events: by time, then
\* ARRIVAL before DEPARTURE, then by agent id, then by station id
ComesBefore(e, f) ==
    \/ e[1] < f[1]
    \/ e[1] = f[1] /\ e[2] < f[2]
    \/ e[1] = f[1] /\ e[2] = f[2] /\ e[3] < f[3]
    \/ e[1] = f[1] /\ e[2] = f[2] /\ e[3] = f[3] /\ e[4] < f[4]

\* C23: any two distinct pending events are comparable, their order being
\* decided by time, kind, agent id and station id alone, it is the order the
\* heap applies, and exactly one event can be popped; the event a step
\* handles comes before every other event that was pending, so that among
\* events of equal time ARRIVAL events go before DEPARTURE events and, within
\* a kind, lower agent ids first.
C23_TiesBrokenByContents ==
    /\ [](/\ \A e, f \in event_queue :
                e # f =>
                    /\ ComesBefore(e, f) # ComesBefore(f, e)
                    /\ TupleLess(e, f, 1) = ComesBefore(e, f)
          /\ event_queue # {} => Cardinality(HeapPop(event_queue)) = 1)
    /\ [][ (pc = "loop" /\ event' # event) =>
              /\ event' \in event_queue
              /\ \A f \in event_queue \ {event'} : ComesBefore(event', f)
         ]_vars

\* the ARRIVAL event handled last was tied in time with two pending
\* DEPARTURE events
C23_Witness ==
    /\ pc = "loop"
    /\ event # << >>
    /\ event[2] = ARRIVAL
    /\ \E f, g \in event_queue :
          /\ f # g
          /\ f[2] = DEPARTURE /\ g[2] = DEPARTURE
          /\ f[1] = event[1] /\ g[1] = event[1]

-----------------------------------------------------------------------------
(* C24 *)

\* agent a has a record in the rejection log rej
Rejected(rej, a) == \E n \in 1 .. Len(rej) : rej[n].agent_id = a

\* agent a has exited: it completed a service, is held by no station of qs
\* and was not rejected
Exited(qs, log, rej, a) ==
    /\ \E n \in 1 .. Len(log) : log[n][1] = a
    /\ StationsHolding(qs, a) = {}
    /\ ~Rejected(rej, a)

\* the records of the two logs that name agent a
RecordsNaming(log, rej, a) ==
    << {n \in 1 .. Len(log) : log[n][1] = a},
       {n \in 1 .. Len(rej) : rej[n].agent_id = a} >>

\* C24: an agent that was rejected or has exited has no pending event and
\* is in no waiting line and on no server; it stays rejected or exited, no
\* later step handles an event for it, and no further completed-agent or
\* rejection record is appended for it.
C24_RejectedAndExitedAreTerminal ==
    /\ [](\A a \in DOMAIN active_agents :
            (Rejected(rejected_agents, a)
             \/ Exited(queues, agents_data, rejected_agents, a)) =>
                /\ {e \in event_queue : e[3] = a} = {}
                /\ StationsHolding(queues, a) = {})
    /\ [][ \A a \in DOMAIN active_agents :
             /\ Rejected(rejected_agents, a) =>
                   /\ Rejected(rejected_agents', a)
                   /\ event' # event => event'[3] # a
                   /\ RecordsNaming(agents_data', rejected_agents', a)
                         = RecordsNaming(agents_data, rejected_agents, a)
             /\ Exited(queues, agents_data, rejected_agents, a) =>
                   /\ Exited(queues', agents_data', rejected_agents', a)
                   /\ event' # event => event'[3] # a
                   /\ RecordsNaming(agents_data', rejected_agents', a)
                         = RecordsNaming(agents_data, rejected_agents, a)
         ]_vars

\* an agent was rejected and another has exited before the current tick,
\* and the event handled last belongs to a third agent
C24_Witness ==
    /\ pc = "loop"
    /\ event # << >>
    /\ \E a, b \in DOMAIN active_agents :
          /\ Rejected(rejected_agents, a)
          /\ Exited(queues, agents_data, rejected_agents, b)
          /\ event[3] \notin {a, b}
          /\ \E n \in 1 .. Len(rejected_agents) :
                /\ rejected_agents[n].agent_id = a
                /\ rejected_agents[n].rejection_time < time
          /\ \E n \in 1 .. Len(agents_data) :
                agents_data[n][1] = b /\ agents_data[n][4] < time

-----------------------------------------------------------------------------
(* C25 *)

\* the records of log that carry the class label c
RecordsOfClass(log, c) == {i \in 1 .. Len(log) : log[i].category = c}

-----------------------------------------------------------------------------
(* C26 *)

\* the routing matrix of class c lets an agent come back to a station it left
RoutingHasCycle(c) ==
    \E i, j \in QueueIds :
        /\ i # j
        /\ config.routing_matrices[c][i][j] > 0
        /\ config.routing_matrices[c][j][i] > 0

\* C26: with interarrival and service durations of at least one tick and a
\* finite horizon, every run eventually leaves the event loop, for every
\* routing matrix; and when it has left the loop, either no event is pending
\* or the event popped last lies beyond the horizon.
C26_RunTerminates ==
    /\ <>(pc = "done")
    /\ [](pc = "done" =>
            \/ event_queue = {}
            \/ /\ event # << >>
               /\ event[1] > config.max_time
               /\ time = event[1]
               /\ \A e \in event_queue : ~TupleLess(e, event, 1))

\* a run over a cyclic routing matrix has ended after an agent went round
\* the cycle: it completed two visits at the same station
C26_Witness ==
    /\ pc = "done"
    /\ \E a \in DOMAIN active_agents :
          /\ RoutingHasCycle(active_agents[a].category)
          /\ \E i, k \in 1 .. Len(agents_data) :
                /\ i < k
                /\ agents_data[i][1] = a
                /\ agents_data[k][1] = a
                /\ agents_data[i][6] = agents_data[k][6]

-----------------------------------------------------------------------------
(* C27 *)

\* C27: a step that handles a DEPARTURE event logs exactly one completed
\* visit and one busy period, those of the departing agent at the station it
\* leaves, and counts at most one arrival: one at the routing result when
\* that is another station, none otherwise.  Afterwards the departing agent
\* is held by no station other than that one, any departure pending for it
\* is at that station, and every event the step scheduled is strictly later
\* than the clock, so nothing more can happen to the agent in the same step
\* or at the same tick without a completed service.
C27_OneHopPerDeparture ==
    [][ DepartureStep =>
          LET a == event'[3]
              q == event'[4]
              hop == next_queue_id' # None /\ next_queue_id' # q
          IN  /\ Len(agents_data') = Len(agents_data) + 1
              /\ agents_data'[Len(agents_data')][1] = a
              /\ agents_data'[Len(agents_data')][6] = q
              /\ Len(server_busy_periods') = Len(server_busy_periods) + 1
              /\ \A j \in QueueIds :
                    arrival_counts'[j] = arrival_counts[j] +
                        (IF hop /\ j = next_queue_id' THEN 1 ELSE 0)
              /\ StationsHolding(queues', a) \subseteq
                    (IF hop THEN {next_queue_id'} ELSE {})
              /\ Cardinality(PendingDepartures(event_queue', a)) <= 1
              /\ \A e \in PendingDepartures(event_queue', a) :
                    hop /\ e[4] = next_queue_id'
              /\ \A e \in event_queue' \ event_queue : e[1] > time'
      ]_vars

\* over a cyclic routing matrix, the departure handled last made its hop and
\* the agent was given a server at the new station, where its next departure
\* is pending at a later time
C27_Witness ==
    /\ pc = "loop"
    /\ event # << >>
    /\ event[2] = DEPARTURE
    /\ next_queue_id # None
    /\ next_queue_id # event[4]
    /\ RoutingHasCycle(active_agents[event[3]].category)
    /\ \E e \in PendingDepartures(event_queue, event[3]) :
          e[4] = next_queue_id /\ e[1] > time

-----------------------------------------------------------------------------
(* C28 *)

\* C28: the active-agent table holds only agents that are waiting, in
\* service or named by a pending arrival event; the id of an agent that has
\* left the network or was rejected is not in the table.
C28_TableHoldsOnlyLiveAgents ==
    \A a \in DOMAIN active_agents :
        \/ StationsHolding(queues, a) # {}
        \/ \E e \in PendingArrivals(event_queue) : e[3] = a

-----------------------------------------------------------------------------
(* C29 *)

\* the snapshot record_state_change would take of station q now, without its
\* timestamp
CurrentCounts(q) ==
    << Len(queues[q].waiting_queue),
       Len(queues[q].waiting_queue)
         + Cardinality({i \in DOMAIN queues[q].servers :
                            queues[q].servers[i].is_busy}),
       Cardinality({i \in DOMAIN queues[q].servers :
                        queues[q].servers[i].is_busy}) >>

\* C29: once the run has started, between events every station's latest
\* snapshot carries its current waiting count, in-system count and busy
\* server count; in every snapshot the in-system count is the waiting count
\* plus the busy server count; the timestamps of a station's snapshots never
\* decrease; and its first snapshot is (0, 0, 0, 0).
C29_SnapshotsTrackStations ==
    pc # "start" =>
        \A q \in QueueIds :
            LET log == state_changes[q]
            IN  /\ Len(log) >= 1
                /\ log[1] = << 0, 0, 0, 0 >>
                /\ SubSeq(log[Len(log)], 2, 4) = CurrentCounts(q)
                /\ \A i \in 1 .. Len(log) : log[i][3] = log[i][2] + log[i][4]
                /\ \A i \in 1 .. (Len(log) - 1) : log[i][1] <= log[i + 1][1]

\* the arrival handled last joined the waiting line of a station whose
\* server is busy, and the station's latest snapshot shows the agent waiting
C29_Witness ==
    /\ pc = "loop"
    /\ event # << >>
    /\ event[2] = ARRIVAL
    /\ LET q == event[4]
           log == state_changes[q]
       IN  /\ Len(queues[q].waiting_queue) >= 1
           /\ queues[q].waiting_queue[Len(queues[q].waiting_queue)] = event[3]
           /\ log[Len(log)][2] >= 1
           /\ log[Len(log)][4] >= 1
           /\ log[Len(log)][1] = time

-----------------------------------------------------------------------------
(* C30 *)

\* the servers of station q that are busy
BusyServers(q) == {i \in DOMAIN queues[q].servers : queues[q].servers[i].is_busy}

\* C30: in every reachable state a server is busy exactly when it holds an
\* agent, the agent it holds carries that server's index as its server_id
\* and is held by no other server, and a station has no more busy servers
\* than its configured number of servers; and a step puts an agent on a
\* server only if the server was idle before the step or held the agent
\* whose departure the step handled, so no agent in service is overwritten.
C30_ServersAssignedOnlyWhenIdle ==
    /\ [](\A q \in QueueIds :
            /\ DOMAIN queues[q].servers = 0 .. (config.num_servers[q] - 1)
            /\ Cardinality(BusyServers(q)) <= config.num_servers[q]
            /\ \A i \in DOMAIN queues[q].servers :
                  LET server == queues[q].servers[i]
                  IN  /\ server.is_busy <=> server.current_agent # None
                      /\ server.is_busy =>
                            /\ server.current_agent \in DOMAIN active_agents
                            /\ active_agents[server.current_agent].server_id = i
                            /\ ServersHolding(queues, q, server.current_agent) = {i}
                            /\ StationsHolding(queues, server.current_agent) = {q})
    /\ [][ \A q \in QueueIds : \A i \in DOMAIN queues[q].servers :
              LET before == queues[q].servers[i]
                  after == queues'[q].servers[i]
              IN  (after.is_busy /\ after.current_agent # before.current_agent)
                  => \/ ~before.is_busy
                     \/ /\ DepartureStep
                        /\ event'[3] = before.current_agent
                        /\ event'[4] = q
         ]_vars

\* at a station with two servers both are busy with different agents, the
\* second one with the agent that arrived while the first was in service
C30_Witness ==
    \E q \in QueueIds :
        /\ config.num_servers[q] >= 2
        /\ BusyServers(q) = DOMAIN queues[q].servers
        /\ queues[q].servers[0].current_agent # queues[q].servers[1].current_agent
        /\ active_agents[queues[q].servers[1].current_agent].server_id = 1

-----------------------------------------------------------------------------
(* C31 *)

\* the positions <<q, i>> of waiting lines at which agent a stands
WaitingPlaces(qs, a) ==
    UNION { { << q, i >> : i \in {k \in 1 .. Len(qs[q].waiting_queue) :
                                     qs[q].waiting_queue[k] = a} } :
            q \in QueueIds }

\* the servers <<q, i>> that hold agent a
ServingPlaces(qs, a) ==
    UNION { { << q, i >> : i \in ServersHolding(qs, q, a) } : q \in QueueIds }

\* C31: in every reachable state every agent of the table stands at no more
\* than one position of one waiting line or is held by no more than one
\* server, never both and never at two stations.
C31_AgentInAtMostOnePlace ==
    \A a \in DOMAIN active_agents :
        Cardinality(WaitingPlaces(queues, a))
          + Cardinality(ServingPlaces(queues, a)) <= 1

\* an agent with a completed visit at one station is now held at another
\* station, and the server that served it holds a different agent
C31_Witness ==
    \E i \in 1 .. Len(agents_data) :
        LET a == agents_data[i][1]
            q == agents_data[i][6]
            server == queues[q].servers[agents_data[i][5]]
        IN  /\ StationsHolding(queues, a) # {}
            /\ q \notin StationsHolding(queues, a)
            /\ server.is_busy
            /\ server.current_agent # a

-----------------------------------------------------------------------------
(* C32 *)

\* the sum of count[c] over the classes c of S
RECURSIVE SumOverClasses(_, _)
SumOverClasses(S, count) ==
    IF S = {} THEN 0
    ELSE LET c == CHOOSE x \in S : TRUE
         IN  count[c] + SumOverClasses(S \ {c}, count)

-----------------------------------------------------------------------------
(* C33 *)

\* C33: between events no station has an agent waiting while one of its
\* servers is idle; and an agent that is held by a server of a station right
\* after the step that handled its arrival there found the waiting line
\* empty: its queue_length_on_arrival is 0.
C33_WorkConserving ==
    /\ [](pc # "start" =>
            \A q \in QueueIds :
                Len(queues[q].waiting_queue) > 0 => AllServersBusy(q))
    /\ [][ \A q \in QueueIds :
              (ArrivedAt(q) /\ ServersHolding(queues', q, event'[3]) # {})
                 => active_agents'[event'[3]].queue_length_on_arrival = 0
         ]_vars

\* at a station with two servers both are busy, the second with an agent
\* that was assigned on arrival, and a later agent waits
C33_Witness ==
    \E q \in QueueIds :
        /\ config.num_servers[q] >= 2
        /\ AllServersBusy(q)
        /\ Len(queues[q].waiting_queue) >= 1
        /\ active_agents[queues[q].servers[1].current_agent]
              .queue_length_on_arrival = 0

-----------------------------------------------------------------------------
(* C34 *)

\* the DEPARTURE events of heap for station q
DeparturesAt(heap, q) == {e \in heap : e[2] = DEPARTURE /\ e[4] = q}

\* C34: while the event loop runs, between events and for every station,
\* the pending DEPARTURE events of the station are as many as its busy
\* servers: every agent in service there has exactly one pending DEPARTURE
\* event, at that station and at the agent's stamped departure_time, and
\* every pending DEPARTURE event names an agent in service at its station.
C34_DeparturesMatchBusyServers ==
    pc = "loop" =>
        \A q \in QueueIds :
            /\ Cardinality(DeparturesAt(event_queue, q))
                  = Cardinality(BusyServers(q))
            /\ \A i \in BusyServers(q) :
                  LET a == queues[q].servers[i].current_agent
                  IN  PendingDepartures(event_queue, a)
                         = { << active_agents[a].departure_time, DEPARTURE, a, q >> }
            /\ \A e \in DeparturesAt(event_queue, q) :
                  ServersHolding(queues, q, e[3]) # {}

\* two agents are in service at one station, with departures pending at
\* different times
C34_Witness ==
    /\ pc = "loop"
    /\ \E q \in QueueIds :
          /\ Cardinality(BusyServers(q)) >= 2
          /\ \E e, f \in DeparturesAt(event_queue, q) : e[1] # f[1]

-----------------------------------------------------------------------------
(* C35 *)

\* C35: in every state between events and at the end of the run, for every
\* station, the accepted arrivals counted there are the completed-agent
\* records of the station plus the agents waiting there plus the agents in
\* service there.
C35_StationFlowBalance ==
    \A q \in QueueIds :
        accepted_arrival_counts[q] =
            CompletedAt(agents_data, q)
              + Len(queues[q].waiting_queue)
              + Cardinality(BusyServers(q))

\* a station has completed a visit, serves an agent and has rejected one
C35_Witness ==
    \E q \in QueueIds :
        /\ CompletedAt(agents_data, q) >= 1
        /\ Cardinality(BusyServers(q)) >= 1
        /\ RejectionsAt(q) >= 1

-----------------------------------------------------------------------------
(* C36 *)

\* C36: every completed-agent record has arrival_time <= service_start_time
\* <= departure_time; a later record of the same agent does not arrive
\* before the departure of an earlier one, so no timestamp of a previous
\* station is logged; and the record a handled departure appends carries
\* the clock of that step as its departure_time.
C36_RecordTimesOrdered ==
    /\ [](\A k \in 1 .. Len(agents_data) :
            /\ agents_data[k][2] <= agents_data[k][3]
            /\ agents_data[k][3] <= agents_data[k][4]
            /\ \A i \in 1 .. (k - 1) :
                  agents_data[i][1] = agents_data[k][1] =>
                      agents_data[i][4] <= agents_data[k][2])
    /\ [][ DepartureStep =>
              /\ Len(agents_data') = Len(agents_data) + 1
              /\ agents_data'[Len(agents_data')][4] = time'
              /\ agents_data'[Len(agents_data')][4] = event'[1]
         ]_vars

\* an agent that was routed from one station to another has a record at
\* each, the second one arriving when the first one departed
C36_Witness ==
    \E i, k \in 1 .. Len(agents_data) :
        /\ i < k
        /\ agents_data[i][1] = agents_data[k][1]
        /\ agents_data[i][6] # agents_data[k][6]
        /\ agents_data[k][2] = agents_data[i][4]
        /\ agents_data[k][2] > agents_data[i][2]

-----------------------------------------------------------------------------
(* C37 *)

\* C37: an agent starts service at a station in a step only if it was the
\* head of the station's waiting line before the step or that line was
\* empty, so an agent assigned on arrival never overtakes a waiting agent;
\* an agent in service at a station arrived there no later than any agent
\* waiting there, and the waiting line is in order of arrival; and of two
\* completed visits at the same station, the one that arrived strictly
\* earlier started service no later.
C37_FirstComeFirstServed ==
    /\ [][ \A q \in QueueIds : \A a \in DOMAIN active_agents' :
              ( /\ ServersHolding(queues', q, a) # {}
                /\ ServersHolding(queues, q, a) = {} )
              => \/ queues[q].waiting_queue = << >>
                 \/ a = Head(queues[q].waiting_queue)
         ]_vars
    /\ [](\A q \in QueueIds :
            LET w == queues[q].waiting_queue
            IN  /\ \A i \in BusyServers(q), k \in 1 .. Len(w) :
                      active_agents[queues[q].servers[i].current_agent].arrival_time
                         <= active_agents[w[k]].arrival_time
                /\ \A i, k \in 1 .. Len(w) :
                      i < k => active_agents[w[i]].arrival_time
                                  <= active_agents[w[k]].arrival_time)
    /\ [](\A i, k \in 1 .. Len(agents_data) :
            ( /\ agents_data[i][6] = agents_data[k][6]
              /\ agents_data[i][2] < agents_data[k][2] )
            => agents_data[i][3] <= agents_data[k][3])

\* two agents completed a visit at the same station; the one that arrived
\* later had to wait and started service after its arrival
C37_Witness ==
    \E i, k \in 1 .. Len(agents_data) :
        /\ agents_data[i][1] # agents_data[k][1]
        /\ agents_data[i][6] = agents_data[k][6]
        /\ agents_data[i][2] < agents_data[k][2]
        /\ agents_data[k][2] < agents_data[k][3]

-----------------------------------------------------------------------------
(* C38 *)

\* the agents waiting or in service at station q
AgentsAt(qs, q) ==
    {qs[q].waiting_queue[i] : i \in 1 .. Len(qs[q].waiting_queue)}
        \cup {qs[q].servers[i].current_agent :
                 i \in {k \in DOMAIN qs[q].servers : qs[q].servers[k].is_busy}}

\* the time from their arrival to the horizon h, summed over the agents of S
RECURSIVE RemainingSojourn(_, _, _)
RemainingSojourn(agents, S, h) ==
    IF S = {} THEN 0
    ELSE LET a == CHOOSE x \in S : TRUE
         IN  (h - agents[a].arrival_time)
               + RemainingSojourn(agents, S \ {a}, h)

\* C38: when the run has ended, for every station, the time-weighted
\* in-system average L of calculate_time_weighted_metrics times the horizon,
\* that is the integral of the in-system count of the snapshot log over
\* [0, horizon], equals the sum of departure_time - arrival_time over the
\* station's completed-agent records plus the sum of horizon - arrival_time
\* over the agents still waiting or in service there; rejected agents add
\* nothing.
C38_SamplePathAccounting ==
    pc = "done" =>
        \A q \in QueueIds :
            LET m == CalculateTimeWeightedMetrics(state_changes[q], config.max_time)
                sojourns ==
                    SumOfDifferences(QueueData(agents_data, q), 4, 2)
                      + RemainingSojourn(active_agents, AgentsAt(queues, q),
                                         config.max_time)
            IN  /\ SameQuotient(m.L, << sojourns, config.max_time >>)
                /\ StepIntegral(state_changes[q], 3, config.max_time) = sojourns

\* a run has ended at a station that completed a visit, rejected an arrival
\* and still holds an agent that arrived before the horizon
C38_Witness ==
    /\ pc = "done"
    /\ \E q \in QueueIds :
          /\ CompletedAt(agents_data, q) >= 1
          /\ RejectionsAt(q) >= 1
          /\ \E a \in AgentsAt(queues, q) :
                active_agents[a].arrival_time < config.max_time

====
